---- MODULE Spec2Model ----
(***************************************************************************)
(* A model of sku.py: the consolidation of inventory spreadsheets into a   *)
(* running dataset (general_df) with a file-index -> timestamp registry    *)
(* (file_timestamps), two pickle side-cars next to the destination, and    *)
(* the sheets written to the destination workbook.                         *)
(*                                                                         *)
(* Representation.                                                         *)
(*  - A column name is the sequence of its parts between "_" characters:   *)
(*    "ADD_2" is <<"ADD", "2">>, "ADD_2_x" is <<"ADD", "2", "x">>, "Descr" *)
(*    is <<"Descr">>.  None of the six header names contains "_".          *)
(*  - A float is an integer scaled by Scale (10^4): 1.2345 is 12345.       *)
(*  - A cell of the dataset is <<"num", scaled>>, <<"nan">> (pandas NaN,   *)
(*    the "no data" marker) or <<"str", chars>> (a passed-through text).   *)
(*  - A cell of a sheet, also as read_excel hands it over, is <<"int", n>>, *)
(*    <<"float", scaled>>, <<"text", chars>> or <<"blank">> (NaN).         *)
(*  - A text is the sequence of its characters.                            *)
(*  - A DataFrame is [cols, rows, opc_dtype, origin]: the columns in       *)
(*    order, the rows in order (each a function from column name to cell)  *)
(*    and the dtype pandas gives the OPC key column.  None is NoneDF.      *)
(*    origin is a history field the program does not have: for each data   *)
(*    column, the creation date of the input file its cells were read from.*)
(*    Nothing the program does reads it.                                   *)
(*                                                                         *)
(* Two specifications.  Spec is the application: batches are selected and  *)
(* process_data runs, session after session, on one destination.           *)
(* SpecFormat is the three formatting functions of process_input_file on   *)
(* one raw cell drawn from a bounded set.                                  *)
(***************************************************************************)
EXTENDS Integers, Sequences, FiniteSets, TLC

\* ---------------------------------------------------------------- bounds
\* the number of input files ingested over all sessions of a behaviour
MaxFiles == 3
\* the number of files of one batch
MaxBatch == 2
\* the number of characters of a raw text cell given to a formatting function
MaxLen == 5

\* ------------------------------------------------------------- constants
REF_HEADERS == <<"Descr", "OPC", "SKU">>
DATA_HEADERS == <<"ADD", "On Hand", "Free ROD">>

CATEGORY_SHEETS ==
  ("FSV" :> ("ADD" :> "FSV_ADD" @@ "On Hand" :> "FSV_OnHand" @@ "Free ROD" :> "FSV_FreeROD"))
  @@ ("SF_PUCK" :> ("ADD" :> "SF_PUCK_ADD" @@ "On Hand" :> "SF_PUCK_OnHand"
                    @@ "Free ROD" :> "SF_PUCK_FreeROD"))

\* floats are kept as integers scaled by 10^4 (the four fractional digits of format_add)
Scale == 10000

\* ------------------------------------------------------- small utilities
Range(s) == {s[i] : i \in DOMAIN s}

RECURSIVE Flatten(_)
Flatten(ss) == IF ss = <<>> THEN <<>> ELSE Head(ss) \o Flatten(Tail(ss))

SetMax(S) == CHOOSE m \in S : \A n \in S : n <= m

\* str(n) of a non-negative int: its decimal digits
DigitChar == <<"0", "1", "2", "3", "4", "5", "6", "7", "8", "9">>

RECURSIVE Str(_)
Str(n) == IF n < 10 THEN DigitChar[n + 1] ELSE Str(n \div 10) \o DigitChar[(n % 10) + 1]

\* int(k) of a decimal string that str wrote
IntOfStr(k) == CHOOSE n \in 0..99 : Str(n) = k

\* a Python dict as a function; d[k] = v
EmptyDict == [k \in {} |-> ""]
DictSet(d, k, v) == [x \in (DOMAIN d) \cup {k} |-> IF x = k THEN v ELSE d[x]]
DictGet(d, k, default) == IF k \in DOMAIN d THEN d[k] ELSE default

\* ------------------------------------------------------------- values
NaN == <<"nan">>
Num(scaled) == <<"num", scaled>>
NoneDF == [none |-> TRUE]
IsNone(df) == df = NoneDF

\* a column name from a header, and f"{x}_{file_index}"
Col(header) == <<header>>
Suffixed(col, part) == Append(col, part)
RefCols == [i \in 1..3 |-> Col(REF_HEADERS[i])]
DataColsOf(idx) == [i \in 1..3 |-> Suffixed(Col(DATA_HEADERS[i]), Str(idx))]

\* ------------------------------------------------------ text primitives
\* str.replace(",", "")
RemoveCommas(chars) == SelectSeq(chars, LAMBDA c : c # ",")

\* str.strip(): leading and trailing blanks removed
RECURSIVE LStrip(_)
LStrip(chars) ==
  IF chars # <<>> /\ Head(chars) = " " THEN LStrip(Tail(chars)) ELSE chars

RECURSIVE RStrip(_)
RStrip(chars) ==
  IF chars # <<>> /\ chars[Len(chars)] = " "
  THEN RStrip(SubSeq(chars, 1, Len(chars) - 1)) ELSE chars

Strip(chars) == RStrip(LStrip(chars))

IsDigitChar(c) == \E d \in 1..10 : DigitChar[d] = c
DigitVal(c) == (CHOOSE d \in 1..10 : DigitChar[d] = c) - 1

\* str.isdigit(): non-empty and every character a decimal digit
IsDigit(chars) == chars # <<>> /\ \A i \in DOMAIN chars : IsDigitChar(chars[i])

\* the integer a digit string denotes
RECURSIVE DigitsValue(_)
DigitsValue(chars) ==
  IF chars = <<>> THEN 0
  ELSE 10 * DigitsValue(SubSeq(chars, 1, Len(chars) - 1)) + DigitVal(chars[Len(chars)])

RECURSIVE Pow10(_)
Pow10(n) == IF n = 0 THEN 1 ELSE 10 * Pow10(n - 1)

\* str(value) of a raw cell, as characters
RECURSIVE StrChars(_)
StrChars(n) ==
  IF n < 10 THEN <<DigitChar[n + 1]>> ELSE Append(StrChars(n \div 10), DigitChar[(n % 10) + 1])

\* str(value): an int gives its digits, a float (whole numbers only, in the
\* files of the model) gives "n.0", a text is itself and NaN gives "nan"
StrOfCell(cell) ==
  CASE cell[1] = "int" -> StrChars(cell[2])
    [] cell[1] = "float" -> StrChars(cell[2] \div Scale) \o <<".", "0">>
    [] cell[1] = "text" -> cell[2]
    [] OTHER -> <<"n", "a", "n">>

\* float(s) for the texts of the model: digits, or digits "." digits with at
\* most four fractional digits, or "nan"; anything else raises ValueError.
\* The result is <<"ok", cell>> or <<"ValueError">>.
DotAt(chars) == {i \in DOMAIN chars : chars[i] = "."}

ParseFloat(chars) ==
  IF chars = <<"n", "a", "n">> THEN <<"ok", NaN>>
  ELSE IF IsDigit(chars) THEN <<"ok", Num(DigitsValue(chars) * Scale)>>
  ELSE IF Cardinality(DotAt(chars)) = 1
    THEN LET d == CHOOSE i \in DotAt(chars) : TRUE
             ip == SubSeq(chars, 1, d - 1)
             fp == SubSeq(chars, d + 1, Len(chars))
         IN IF IsDigit(ip) /\ IsDigit(fp) /\ Len(fp) <= 4
            THEN <<"ok", Num(DigitsValue(ip) * Scale + DigitsValue(fp) * Pow10(4 - Len(fp)))>>
            ELSE <<"ValueError">>
  ELSE <<"ValueError">>

\* ------------------------------------------------- formatting functions
Zero0 == <<"0">>
Zero00 == <<"0", ".", "0">>

format_add(value) ==
  LET s == Strip(RemoveCommas(StrOfCell(value)))
  IN IF s \in {<<>>, Zero0, Zero00} THEN Num(1)
     ELSE IF IsDigit(s)
       THEN IF Len(s) > 4
            THEN Num(DigitsValue(SubSeq(s, 1, Len(s) - 4)) * Scale
                     + DigitsValue(SubSeq(s, Len(s) - 3, Len(s))))
            ELSE Num(DigitsValue(s))
     ELSE LET r == ParseFloat(s) IN IF r[1] = "ok" THEN r[2] ELSE Num(0)

format_free_rod(value) ==
  LET s == Strip(RemoveCommas(StrOfCell(value)))
  IN IF s \in {<<>>, Zero0, Zero00} THEN Num(0)
     ELSE LET r == ParseFloat(s) IN IF r[1] = "ok" THEN r[2] ELSE Num(0)

\* the cell pandas keeps for a raw value that is passed through unchanged
PassThrough(value) ==
  CASE value[1] = "int" -> Num(value[2] * Scale)
    [] value[1] = "float" -> Num(value[2])
    [] value[1] = "text" -> <<"str", value[2]>>
    [] OTHER -> NaN

\* the lambda applied to "On Hand"
format_on_hand(value) ==
  LET s == Strip(RemoveCommas(StrOfCell(value)))
  IN IF IsDigit(s) THEN Num(DigitsValue(s) * Scale) ELSE PassThrough(value)

\* ---------------------------------------------------------- input files
\* A file is [name, ctime, top, second, rows]: the date of its creation time
\* as strftime('%d/%m/%Y') gives it, the cells of its first and of its second
\* row (what read_excel makes the columns with header=0 and header=1), and
\* the rows under its header row, each a function from header name to the
\* cell of the sheet.  Every column of the files that has a text cell has one
\* that is no number, so read_excel keeps the texts of the column as texts.
Headers6 == REF_HEADERS \o DATA_HEADERS

Txt_FSV == <<"F", "S", "V">>
Txt_PUCK == <<"P", "U", "C", "K">>
Txt_X == <<"X">>
Txt_SF == <<"S", "F">>
Txt_NA == <<"N", "/", "A">>
Txt_TBD == <<"T", "B", "D">>

RawRow(descr, opc, sku, add, onhand, freerod) ==
  ("Descr" :> <<"text", descr>>) @@ ("OPC" :> opc) @@ ("SKU" :> <<"text", sku>>)
  @@ ("ADD" :> add) @@ ("On Hand" :> onhand) @@ ("Free ROD" :> freerod)

\* header in the first row; an FSV row and a PUCK row whose On Hand is "N/A"
FileA ==
  [name |-> "a.xlsx", ctime |-> "01/01/2025", top |-> Headers6, second |-> <<>>,
   rows |-> << RawRow(Txt_FSV, <<"text", <<"p">>>>, <<"s", "1">>,
                      <<"int", 12345>>, <<"int", 5>>, <<"int", 0>>),
               RawRow(Txt_PUCK, <<"text", <<"q">>>>, <<"s", "2">>,
                      <<"int", 0>>, <<"text", Txt_NA>>, <<"int", 1500>>) >>]

\* a title in the first row and the header in the second; a PUCK row and a row
\* of no category, whose On Hand is a marker text and whose Free ROD is empty
FileB ==
  [name |-> "b.xlsx", ctime |-> "02/01/2025", top |-> <<"Report">>, second |-> Headers6,
   rows |-> << RawRow(Txt_PUCK, <<"text", <<"q">>>>, <<"s", "2">>,
                      <<"int", 7>>, <<"int", 2000>>, <<"float", 30000>>),
               RawRow(Txt_X, <<"text", <<"r">>>>, <<"s", "3">>,
                      <<"int", 1234>>, <<"text", Txt_TBD>>, <<"blank">>) >>]

\* a valid header and no data rows
FileE ==
  [name |-> "e.xlsx", ctime |-> "03/01/2025", top |-> Headers6, second |-> <<>>,
   rows |-> << >>]

\* OPC holds numbers: pandas reads the key column as int64; an SF row and a
\* row whose Descr cell is empty
FileI ==
  [name |-> "i.xlsx", ctime |-> "04/01/2025", top |-> Headers6, second |-> <<>>,
   rows |-> << RawRow(Txt_SF, <<"int", 7>>, <<"s", "4">>,
                      <<"int", 1000000>>, <<"int", 9>>, <<"int", 2>>),
               [RawRow(Txt_X, <<"int", 8>>, <<"s", "5">>,
                       <<"int", 7>>, <<"int", 1>>, <<"int", 0>>)
                  EXCEPT !["Descr"] = <<"blank">>] >>]

\* the reference headers are in neither of the first two rows
FileX ==
  [name |-> "x.xlsx", ctime |-> "05/01/2025", top |-> <<"Report">>,
   second |-> <<"Item", "Qty">>, rows |-> << >>]

Files == {FileA, FileB, FileE, FileI, FileX}

\* the texts of the Descr column in Python's string order (the order in which
\* an outer merge sorts the keys; every key of the model has its own Descr)
DescrOrder == <<Txt_FSV, Txt_PUCK, Txt_SF, Txt_X>>

\* ------------------------------------------------------ process_input_file
\* pd.read_excel(file_path, header=h): the columns it finds
ReadColumns(file, h) == IF h = 0 THEN file.top ELSE file.second

HasRefHeaders(columns) == \A i \in 1..3 : REF_HEADERS[i] \in Range(columns)
HasDataHeaders(columns) == \A i \in 1..3 : DATA_HEADERS[i] \in Range(columns)

\* the texts read_excel reads as NaN (na_filter, keep_default_na): '',
\* '#N/A', '#N/A N/A', '#NA', '-1.#IND', '-1.#QNAN', '-NaN', '-nan', '1.#IND',
\* '1.#QNAN', '<NA>', 'N/A', 'NA', 'NULL', 'NaN', 'None', 'n/a', 'nan', 'null'
STR_NA_VALUES ==
  { <<>>, <<"#", "N", "/", "A">>, <<"#", "N", "/", "A", " ", "N", "/", "A">>,
    <<"#", "N", "A">>, <<"-", "1", ".", "#", "I", "N", "D">>,
    <<"-", "1", ".", "#", "Q", "N", "A", "N">>, <<"-", "N", "a", "N">>,
    <<"-", "n", "a", "n">>, <<"1", ".", "#", "I", "N", "D">>,
    <<"1", ".", "#", "Q", "N", "A", "N">>, <<"<", "N", "A", ">">>,
    <<"N", "/", "A">>, <<"N", "A">>, <<"N", "U", "L", "L">>, <<"N", "a", "N">>,
    <<"N", "o", "n", "e">>, <<"n", "/", "a">>, <<"n", "a", "n">>,
    <<"n", "u", "l", "l">> }

\* a cell of the sheet after the NA conversion
NaFiltered(cell) ==
  IF cell[1] = "text" /\ cell[2] \in STR_NA_VALUES THEN <<"blank">> ELSE cell

\* the cell of row i in the column of header h as read_excel hands it over:
\* NA texts are NaN, and a column of numbers with a NaN or a float in it is
\* float64, so its ints are floats
ReadCell(file, i, h) ==
  LET column == [r \in DOMAIN file.rows |-> NaFiltered(file.rows[r][h])]
  IN IF /\ column[i][1] = "int"
        /\ \A r \in DOMAIN column : column[r][1] \in {"int", "float", "blank"}
        /\ \E r \in DOMAIN column : column[r][1] \in {"float", "blank"}
     THEN <<"float", column[i][2] * Scale>>
     ELSE column[i]

\* the rows of the DataFrame read_excel returns
ReadRows(file) ==
  [i \in DOMAIN file.rows |-> [h \in DOMAIN file.rows[i] |-> ReadCell(file, i, h)]]

\* a reference cell as the DataFrame keeps it
RefCell(value) ==
  CASE value[1] = "int" -> <<"int", value[2]>>
    [] value[1] = "float" -> <<"num", value[2]>>
    [] value[1] = "text" -> <<"str", value[2]>>
    [] OTHER -> NaN

\* the dtype of the OPC column: int64 when it has rows and all are ints
OpcDtype(rows) ==
  IF rows # <<>> /\ \A i \in DOMAIN rows : rows[i]["OPC"][1] = "int"
  THEN "int64" ELSE "object"

\* one row of df_combined: the reference cells and the formatted data cells
\* under the names suffixed with the file index
CombinedRow(raw, file_index) ==
  [c \in Range(RefCols) \cup Range(DataColsOf(file_index)) |->
     IF Len(c) = 1 THEN RefCell(raw[c[1]])
     ELSE CASE c[1] = "ADD" -> format_add(raw["ADD"])
            [] c[1] = "Free ROD" -> format_free_rod(raw["Free ROD"])
            [] OTHER -> format_on_hand(raw["On Hand"])]

\* <<"ok", df_combined, timestamp>>, or <<"error">> when it raises
process_input_file(file, file_index) ==
  IF ~HasRefHeaders(ReadColumns(file, 0)) /\ ~HasRefHeaders(ReadColumns(file, 1))
  THEN <<"error">>
  ELSE LET columns == IF HasRefHeaders(ReadColumns(file, 0))
                      THEN ReadColumns(file, 0) ELSE ReadColumns(file, 1)
       IN IF ~HasDataHeaders(columns) THEN <<"error">>
          ELSE <<"ok",
                 [cols |-> RefCols \o DataColsOf(file_index),
                  rows |-> [i \in DOMAIN file.rows |->
                              CombinedRow(ReadRows(file)[i], file_index)],
                  opc_dtype |-> OpcDtype(ReadRows(file)),
                  origin |-> [c \in Range(DataColsOf(file_index)) |-> file.ctime]],
                 file.ctime>>

\* ---------------------------------------------------------- DataFrames
\* DataFrame.empty: an axis of length 0
IsEmpty(df) == Len(df.rows) = 0 \/ Len(df.cols) = 0

KeyOf(row) == <<row[RefCols[1]], row[RefCols[2]], row[RefCols[3]]>>
KeysOf(df) == {KeyOf(df.rows[i]) : i \in DOMAIN df.rows}

\* a key whose Descr is NaN sorts after the others
DescrRank(key) ==
  IF key[1] = NaN THEN Len(DescrOrder) + 1
  ELSE CHOOSE i \in DOMAIN DescrOrder : DescrOrder[i] = key[1][2]

\* the keys of S, sorted
RECURSIVE SortedKeys(_)
SortedKeys(S) ==
  IF S = {} THEN <<>>
  ELSE LET k == CHOOSE x \in S : \A y \in S : DescrRank(x) <= DescrRank(y)
       IN <<k>> \o SortedKeys(S \ {k})

\* lib.infer_dtype of the OPC column
InferredOpc(df) ==
  LET kinds == {df.rows[i][RefCols[2]][1] : i \in DOMAIN df.rows}
  IN IF kinds = {} THEN "empty"
     ELSE IF kinds = {"int"} THEN "integer"
     ELSE IF kinds = {"str"} THEN "string"
     ELSE IF "int" \in kinds THEN "mixed-integer" ELSE "mixed"

\* pandas refuses to merge a numeric key column with an object column of strings
\* (ValueError: You are trying to merge on object and int64 columns); a side
\* without rows is not looked at
KeyDtypesClash(left, right) ==
  /\ Len(left.rows) > 0 /\ Len(right.rows) > 0
  /\ \/ left.opc_dtype = "int64" /\ right.opc_dtype = "object"
           /\ InferredOpc(right) \in {"string", "mixed"}
     \/ left.opc_dtype = "object" /\ right.opc_dtype = "int64"
           /\ InferredOpc(left) \in {"string", "mixed"}

\* the non-key columns the two sides share get the suffixes "_x" and "_y"
Overlap(left, right) == (Range(left.cols) \cap Range(right.cols)) \ Range(RefCols)
LeftName(left, right, c) == IF c \in Overlap(left, right) THEN Suffixed(c, "x") ELSE c
RightName(left, right, c) == IF c \in Overlap(left, right) THEN Suffixed(c, "y") ELSE c

MergedCols(left, right) ==
  LET rdata == SelectSeq(right.cols, LAMBDA c : c \notin Range(RefCols))
  IN [i \in DOMAIN left.cols |-> LeftName(left, right, left.cols[i])]
     \o [i \in DOMAIN rdata |-> RightName(left, right, rdata[i])]

\* the row of the result for a left row l and a right row r; NoRow for the
\* absent side of a key that only one side has
NoRow == [none |-> TRUE]

MergedRow(left, right, key, l, r) ==
  [c \in Range(MergedCols(left, right)) |->
     IF c \in Range(RefCols)
     THEN key[CHOOSE i \in 1..3 : RefCols[i] = c]
     ELSE IF \E lc \in Range(left.cols) \ Range(RefCols) : LeftName(left, right, lc) = c
       THEN IF l = NoRow THEN NaN
            ELSE l[CHOOSE lc \in Range(left.cols) : LeftName(left, right, lc) = c]
       ELSE IF r = NoRow THEN NaN
            ELSE r[CHOOSE rc \in Range(right.cols) \ Range(RefCols) :
                     RightName(left, right, rc) = c]]

\* the rows of the result for one key: every pairing of the left rows and
\* the right rows that have it
MergedRowsOfKey(left, right, key) ==
  LET L == SelectSeq(left.rows, LAMBDA row : KeyOf(row) = key)
      R == SelectSeq(right.rows, LAMBDA row : KeyOf(row) = key)
  IN IF L # <<>> /\ R # <<>>
     THEN Flatten([i \in DOMAIN L |->
                     [j \in DOMAIN R |-> MergedRow(left, right, key, L[i], R[j])]])
     ELSE IF R = <<>>
       THEN [i \in DOMAIN L |-> MergedRow(left, right, key, L[i], NoRow)]
       ELSE [j \in DOMAIN R |-> MergedRow(left, right, key, NoRow, R[j])]

\* the history field of the result: each column keeps the file it came from
MergedOrigin(left, right) ==
  [c \in Range(MergedCols(left, right)) \ Range(RefCols) |->
     IF \E lc \in DOMAIN left.origin : LeftName(left, right, lc) = c
     THEN left.origin[CHOOSE lc \in DOMAIN left.origin : LeftName(left, right, lc) = c]
     ELSE right.origin[CHOOSE rc \in DOMAIN right.origin : RightName(left, right, rc) = c]]

\* pd.merge(left, right, on=REF_HEADERS, how='outer'): <<"ok", df>>, or
\* <<"error">> when it raises (key dtypes that clash, or suffixes that
\* would make two columns of one name: MergeError).  The key columns of the
\* result are those of the left side when no row of it is right-only.
pd_merge(left, right) ==
  IF KeyDtypesClash(left, right) THEN <<"error">>
  ELSE IF Cardinality(Range(MergedCols(left, right))) < Len(MergedCols(left, right))
    THEN <<"error">>
  ELSE LET keys == SortedKeys(KeysOf(left) \cup KeysOf(right))
       IN <<"ok",
            [cols |-> MergedCols(left, right),
             rows |-> Flatten([i \in DOMAIN keys |-> MergedRowsOfKey(left, right, keys[i])]),
             opc_dtype |-> IF KeysOf(right) \subseteq KeysOf(left) THEN left.opc_dtype
                           ELSE IF left.opc_dtype = "int64" /\ right.opc_dtype = "int64"
                             THEN "int64" ELSE "object",
             origin |-> MergedOrigin(left, right)]>>

merge_dataframes(existing_df, new_df) ==
  IF IsNone(existing_df) \/ IsEmpty(existing_df) THEN <<"ok", new_df>>
  ELSE pd_merge(existing_df, new_df)

\* ------------------------------------------------------ category views
\* Series.str.contains of a literal: pat occurs somewhere in chars
Contains(chars, pat) ==
  \E i \in 1..(Len(chars) - Len(pat) + 1) : SubSeq(chars, i, i + Len(pat) - 1) = pat

\* str.contains(..., na=False) on a Descr cell
DescrContains(cell, pats) ==
  cell[1] = "str" /\ \E p \in pats : Contains(cell[2], p)

\* df[mask]: the rows the mask keeps, the columns as they are
WithRows(df, rows) ==
  [cols |-> df.cols, rows |-> rows, opc_dtype |-> df.opc_dtype, origin |-> df.origin]

FsvRows(df) ==
  WithRows(df, SelectSeq(df.rows,
                         LAMBDA row : DescrContains(row[RefCols[1]], {<<"F", "S", "V">>})))

\* the SF_PUCK rows taken by "PUCK" alone
SfPuckRows_PuckOnly(df) ==
  WithRows(df, SelectSeq(df.rows,
                         LAMBDA row : DescrContains(row[RefCols[1]], {<<"P", "U", "C", "K">>})))

SfPuckRows(df) ==
  WithRows(df, SelectSeq(df.rows,
                         LAMBDA row : DescrContains(row[RefCols[1]],
                                                    {<<"S", "F">>, <<"P", "U", "C", "K">>})))

filter_category_data(df, category) ==
  IF category = "FSV" THEN FsvRows(df)
  ELSE IF category = "SF_PUCK" THEN SfPuckRows(df)
  ELSE [cols |-> df.cols, rows |-> <<>>, opc_dtype |-> "object", origin |-> df.origin]

\* col.startswith(f"{header}_")
StartsWithHeader(col, header) == Len(col) >= 2 /\ col[1] = header

\* df[cols]
Project(df, cols) ==
  [cols |-> cols,
   rows |-> [i \in DOMAIN df.rows |-> [c \in Range(cols) |-> df.rows[i][c]]],
   opc_dtype |-> df.opc_dtype,
   origin |-> [c \in Range(cols) \cap DOMAIN df.origin |-> df.origin[c]]]

\* <<"ok", df>>, or <<"error">>: None["Descr"] raises TypeError
extract_category_data(general_df, category, header) ==
  IF IsNone(general_df) THEN <<"error">>
  ELSE <<"ok",
         Project(filter_category_data(general_df, category),
                 RefCols \o SelectSeq(general_df.cols,
                                      LAMBDA col : StartsWithHeader(col, header)))>>

\* ------------------------------------------------------------- the writer
\* col.rsplit("_", 1)
RSplitBase(col) == SubSeq(col, 1, Len(col) - 1)
RSplitIdx(col) == col[Len(col)]

Header1Of(col, file_timestamps) ==
  IF col \in Range(RefCols) THEN ""
  ELSE IF Len(col) > 1 THEN DictGet(file_timestamps, RSplitIdx(col), "")
  ELSE ""

Header2Of(col) ==
  IF col \in Range(RefCols) THEN col
  ELSE IF Len(col) > 1 THEN RSplitBase(col)
  ELSE col

\* the sheet write_df_custom makes: its title and the rows it appends, header1,
\* header2 and then one per row of df (itertuples: the cells in column order).
\* A cell of header2 is a name, kept as its parts like a column name.
write_df_custom(sheet_name, df, file_timestamps) ==
  [title |-> sheet_name,
   cells |-> << [i \in DOMAIN df.cols |-> Header1Of(df.cols[i], file_timestamps)],
                [i \in DOMAIN df.cols |-> Header2Of(df.cols[i])] >>
             \o [r \in DOMAIN df.rows |->
                   [i \in DOMAIN df.cols |-> df.rows[r][df.cols[i]]]]]

\* pd.DataFrame(columns=REF_HEADERS + [header])
EmptyFrame(header) ==
  [cols |-> RefCols \o <<Col(header)>>, rows |-> <<>>, opc_dtype |-> "object",
   origin |-> EmptyDict]

CategoryNames == <<"FSV", "SF_PUCK">>

\* the sheet of one (category, header) pair
CategorySheet(general_df, file_timestamps, category, header) ==
  LET df_to_write == extract_category_data(general_df, category, header)[2]
  IN IF ~IsEmpty(df_to_write)
     THEN write_df_custom(CATEGORY_SHEETS[category][header], df_to_write, file_timestamps)
     ELSE write_df_custom(CATEGORY_SHEETS[category][header], EmptyFrame(header),
                          file_timestamps)

\* the sheets of the workbook without the category sheets that have no rows
WorkbookSheets_SkipEmpty(general_df, file_timestamps) ==
  (IF ~IsNone(general_df)
   THEN <<write_df_custom("General", general_df, file_timestamps)>> ELSE <<>>)
  \o (IF ~IsNone(general_df) /\ ~IsEmpty(FsvRows(general_df))
      THEN <<write_df_custom("General_FSV", FsvRows(general_df), file_timestamps)>>
      ELSE <<>>)
  \o (IF ~IsNone(general_df) /\ ~IsEmpty(SfPuckRows(general_df))
      THEN <<write_df_custom("General_SF_PUCK", SfPuckRows(general_df), file_timestamps)>>
      ELSE <<>>)
  \o SelectSeq(Flatten([c \in 1..2 |->
                          [h \in 1..3 |->
                             CategorySheet(general_df, file_timestamps, CategoryNames[c],
                                           DATA_HEADERS[h])]]),
               LAMBDA sheet : Len(sheet.cells) > 2)

\* the sheets of the workbook, in the order they are created
WorkbookSheets(general_df, file_timestamps) ==
  (IF ~IsNone(general_df)
   THEN <<write_df_custom("General", general_df, file_timestamps)>> ELSE <<>>)
  \o (IF ~IsNone(general_df) /\ ~IsEmpty(FsvRows(general_df))
      THEN <<write_df_custom("General_FSV", FsvRows(general_df), file_timestamps)>>
      ELSE <<>>)
  \o (IF ~IsNone(general_df) /\ ~IsEmpty(SfPuckRows(general_df))
      THEN <<write_df_custom("General_SF_PUCK", SfPuckRows(general_df), file_timestamps)>>
      ELSE <<>>)
  \o Flatten([c \in 1..2 |->
                [h \in 1..3 |->
                   CategorySheet(general_df, file_timestamps, CategoryNames[c],
                                 DATA_HEADERS[h])]])

\* ------------------------------------------------------------------ state
VARIABLES
  input_files,      \* self.input_files: the batch, in the caller's order
  output_file,      \* self.output_file: "" until a destination is chosen
  pc,               \* where process_data is: "idle", "loop", "views", "write"
  disk_df,          \* the side-car <output>.pkl: <<"absent">>, <<"corrupt">>, <<"ok", df>>
  disk_ts,          \* the side-car <output>.timestamps.pkl, likewise
  general_df,       \* the local general_df (NoneDF for None)
  file_timestamps,  \* the local file_timestamps
  start_index,      \* the local start_index
  pos,              \* the files of the batch the loop has gone through
  results,          \* per file the loop went through, <<i, "ok">> or <<i, "error">>:
                    \* the index enumerate gave it and whether an error was logged
  signals,          \* the message boxes this call of process_data has shown
  ended,            \* how the last call of process_data ended: "none" (not yet),
                    \* "rejected" (nothing selected), "written" (the workbook was
                    \* written: it holds WorkbookSheets of the locals),
                    \* "write_failed" (the writer raised), "raised" (an
                    \* exception left process_data)
  save_result,      \* what the save step logged: "none", "saved", "error"
  ingested,         \* files gone through over all sessions (bounded by MaxFiles)
  max_assigned,     \* the highest file index any file was given so far
  value,            \* the raw cell a formatting function is called with
  formatted         \* <<"none">>, or <<function, what it returned for value>>

session_vars == <<input_files, output_file, pc, disk_df, disk_ts, general_df,
                  file_timestamps, start_index, pos, results, signals, ended,
                  save_result, ingested, max_assigned>>

vars == <<session_vars, value, formatted>>

\* the batches a caller can select: one to MaxBatch distinct files, in any order
Batches ==
  {b \in UNION {[1..n -> Files] : n \in 1..MaxBatch} :
     \A i, j \in DOMAIN b : i # j => b[i] # b[j]}

Init ==
  /\ input_files = <<>>
  /\ output_file = ""
  /\ pc = "idle"
  /\ disk_df = <<"absent">>
  /\ disk_ts = <<"absent">>
  /\ general_df = NoneDF
  /\ file_timestamps = EmptyDict
  /\ start_index = 1
  /\ pos = 0
  /\ results = <<>>
  /\ signals = <<>>
  /\ ended = "none"
  /\ save_result = "none"
  /\ ingested = 0
  /\ max_assigned = 0
  /\ value = <<"blank">>
  /\ formatted = <<"none">>

\* ---------------------------------------------------------------- actions
\* the file dialog: a batch is chosen (only batches the bound MaxFiles still
\* lets a session go through are offered)
select_input_files ==
  /\ pc = "idle"
  /\ \E files \in Batches :
       /\ ingested + Len(files) <= MaxFiles
       /\ input_files' = files
  /\ UNCHANGED <<output_file, pc, disk_df, disk_ts, general_df, file_timestamps,
                 start_index, pos, results, signals, ended, save_result,
                 ingested, max_assigned>>
  /\ UNCHANGED <<value, formatted>>

select_output_file ==
  /\ pc = "idle"
  /\ output_file = ""
  /\ output_file' = "out.xlsx"
  /\ UNCHANGED <<input_files, pc, disk_df, disk_ts, general_df, file_timestamps,
                 start_index, pos, results, signals, ended, save_result,
                 ingested, max_assigned>>
  /\ UNCHANGED <<value, formatted>>

\* process_data with nothing selected: an error box and return
ProcessDataRejected ==
  /\ pc = "idle"
  /\ input_files = <<>> \/ output_file = ""
  /\ signals' = <<"error">>
  /\ ended' = "rejected"
  /\ UNCHANGED <<input_files, output_file, pc, disk_df, disk_ts, general_df,
                 file_timestamps, start_index, pos, results, save_result,
                 ingested, max_assigned>>
  /\ UNCHANGED <<value, formatted>>

\* what a side-car gives: its content when it exists and unpickles, else the default
LoadedFrom(disk, default) == IF disk[1] = "ok" THEN disk[2] ELSE default

\* start_index taken from the number of entries instead of the greatest key
StartIndexOf_Count(timestamps) == Cardinality(DOMAIN timestamps) + 1

\* start_index from the registry as loaded
StartIndexOf(timestamps) ==
  IF DOMAIN timestamps # {}
  THEN SetMax({IntOfStr(k) : k \in DOMAIN timestamps}) + 1
  ELSE 1

\* process_data up to the loop: the two side-cars are loaded, each on its own
\* (an absent or unreadable one gives None or {}), and start_index is computed.
\* MaxFiles caps the files a behaviour ingests.
LoadSideCars ==
  /\ pc = "idle"
  /\ input_files # <<>> /\ output_file # ""
  /\ ingested + Len(input_files) <= MaxFiles
  /\ general_df' = LoadedFrom(disk_df, NoneDF)
  /\ file_timestamps' = LoadedFrom(disk_ts, EmptyDict)
  /\ start_index' = StartIndexOf(LoadedFrom(disk_ts, EmptyDict))
  /\ pos' = 0
  /\ results' = <<>>
  /\ signals' = <<>>
  /\ ended' = "none"
  /\ save_result' = "none"
  /\ pc' = "loop"
  /\ UNCHANGED <<input_files, output_file, disk_df, disk_ts, ingested, max_assigned>>
  /\ UNCHANGED <<value, formatted>>

\* the index enumerate gives the k-th file of the batch
IndexOf(start, k) == start + k - 1

\* the body of the for statement on the locals, for one file and the index
\* enumerate gives it: the registry gets the timestamp as soon as the file is
\* read, then the merge; an exception of either is logged (outcome "error")
\* and leaves what was assigned before it
AfterFile(df, timestamps, file, i) ==
  LET got == process_input_file(file, i)
  IN IF got[1] = "error"
     THEN [general_df |-> df, file_timestamps |-> timestamps, outcome |-> "error"]
     ELSE LET merged == merge_dataframes(df, got[2])
          IN [general_df |-> IF merged[1] = "error" THEN df ELSE merged[2],
              file_timestamps |-> DictSet(timestamps, Str(i), got[3]),
              outcome |-> merged[1]]

\* the whole loop on the locals: the files in their order, the indices from start
RECURSIVE AfterBatch(_, _, _, _)
AfterBatch(df, timestamps, files, start) ==
  IF files = <<>> THEN [general_df |-> df, file_timestamps |-> timestamps]
  ELSE LET after == AfterFile(df, timestamps, Head(files), start)
       IN AfterBatch(after.general_df, after.file_timestamps, Tail(files), start + 1)

\* one iteration of the loop over the batch
ProcessFile ==
  /\ pc = "loop"
  /\ pos < Len(input_files)
  /\ LET i == IndexOf(start_index, pos + 1)
         after == AfterFile(general_df, file_timestamps, input_files[pos + 1], i)
     IN /\ general_df' = after.general_df
        /\ file_timestamps' = after.file_timestamps
        /\ results' = Append(results, <<i, after.outcome>>)
        /\ max_assigned' = IF i > max_assigned THEN i ELSE max_assigned
  /\ pos' = pos + 1
  /\ ingested' = ingested + 1
  /\ UNCHANGED <<input_files, output_file, pc, disk_df, disk_ts, start_index, signals,
                 ended, save_result>>
  /\ UNCHANGED <<value, formatted>>

\* what a failed write can leave of a file: what it was, or a truncated file
AfterFailedWrite(disk) == {disk, <<"corrupt">>}

\* the save step: both side-cars written, or an exception at the first or at
\* the second to_pickle, logged
SaveSideCars ==
  /\ pc = "loop"
  /\ pos = Len(input_files)
  /\ \/ /\ disk_df' = <<"ok", general_df>>
        /\ disk_ts' = <<"ok", file_timestamps>>
        /\ save_result' = "saved"
     \/ /\ disk_df' \in AfterFailedWrite(disk_df)
        /\ disk_ts' = disk_ts
        /\ save_result' = "error"
     \/ /\ disk_df' = <<"ok", general_df>>
        /\ disk_ts' \in AfterFailedWrite(disk_ts)
        /\ save_result' = "error"
  /\ pc' = "views"
  /\ UNCHANGED <<input_files, output_file, general_df, file_timestamps, start_index, pos,
                 results, signals, ended, ingested, max_assigned>>
  /\ UNCHANGED <<value, formatted>>

\* process_data is left: its locals are no more
LocalsGone ==
  /\ general_df' = NoneDF
  /\ file_timestamps' = EmptyDict
  /\ start_index' = 1
  /\ pos' = 0

\* the category views; extract_category_data raises on None and nothing catches it
BuildViews ==
  /\ pc = "views"
  /\ IF extract_category_data(general_df, "FSV", DATA_HEADERS[1])[1] = "error"
     THEN /\ pc' = "idle"
          /\ ended' = "raised"
          /\ LocalsGone
     ELSE /\ pc' = "write"
          /\ UNCHANGED <<ended, general_df, file_timestamps, start_index, pos>>
  /\ UNCHANGED <<input_files, output_file, disk_df, disk_ts, results, signals,
                 save_result, ingested, max_assigned>>
  /\ UNCHANGED <<value, formatted>>

\* the workbook is written (its sheets are WorkbookSheets(general_df,
\* file_timestamps)) and the success box shown, or the writer raises and the
\* error box is shown
WriteOutput ==
  /\ pc = "write"
  /\ \/ /\ ended' = "written"
        /\ signals' = Append(signals, "success")
     \/ /\ ended' = "write_failed"
        /\ signals' = Append(signals, "error")
  /\ pc' = "idle"
  /\ LocalsGone
  /\ UNCHANGED <<input_files, output_file, disk_df, disk_ts, results, save_result,
                 ingested, max_assigned>>
  /\ UNCHANGED <<value, formatted>>

Next ==
  \/ select_input_files
  \/ select_output_file
  \/ ProcessDataRejected
  \/ LoadSideCars
  \/ ProcessFile
  \/ SaveSideCars
  \/ BuildViews
  \/ WriteOutput

Spec == Init /\ [][Next]_vars

\* ------------------------------------------- the formatting functions alone
\* The raw cells a column of a spreadsheet can give a formatting function: a
\* text of at most MaxLen characters (digits, commas, blanks), an int, a
\* float that is a whole number, or an empty cell.
FormatChars == {"0", "7", ",", " "}
RawTexts == UNION {[1..n -> FormatChars] : n \in 0..MaxLen}
RawValues ==
  {<<"text", t>> : t \in RawTexts}
  \cup {<<"int", n>> : n \in {0, 7, 1234, 12345, 1000000}}
  \cup {<<"float", 0>>, <<"float", 30000>>, <<"blank">>}

\* the whole numbers whose scaled value the integers of the model can hold:
\* at most five digits
Holds(cell) ==
  LET s == Strip(RemoveCommas(StrOfCell(cell))) IN IsDigit(s) => Len(s) <= 5

InitFormat ==
  /\ value \in RawValues
  /\ formatted = <<"none">>
  /\ input_files = <<>>
  /\ output_file = ""
  /\ pc = "idle"
  /\ disk_df = <<"absent">>
  /\ disk_ts = <<"absent">>
  /\ general_df = NoneDF
  /\ file_timestamps = EmptyDict
  /\ start_index = 1
  /\ pos = 0
  /\ results = <<>>
  /\ signals = <<>>
  /\ ended = "none"
  /\ save_result = "none"
  /\ ingested = 0
  /\ max_assigned = 0

\* df_data["ADD"].apply(format_add) on one cell
ApplyFormatAdd ==
  /\ formatted = <<"none">>
  /\ formatted' = <<"format_add", format_add(value)>>
  /\ UNCHANGED <<session_vars, value>>

\* df_data["Free ROD"].apply(format_free_rod) on one cell
ApplyFormatFreeRod ==
  /\ formatted = <<"none">>
  /\ Holds(value)
  /\ formatted' = <<"format_free_rod", format_free_rod(value)>>
  /\ UNCHANGED <<session_vars, value>>

\* df_data["On Hand"].apply(lambda x: ...) on one cell
ApplyFormatOnHand ==
  /\ formatted = <<"none">>
  /\ Holds(value)
  /\ formatted' = <<"format_on_hand", format_on_hand(value)>>
  /\ UNCHANGED <<session_vars, value>>

NextFormat ==
  \/ ApplyFormatAdd
  \/ ApplyFormatFreeRod
  \/ ApplyFormatOnHand

SpecFormat == InitFormat /\ [][NextFormat]_vars

\* ================================================================= claims
\* steps of process_data, named for the formulas below
LoadStep == pc = "idle" /\ pc' = "loop"
FileStep == pc = "loop" /\ pos' = pos + 1
SaveStep == pc = "loop" /\ pc' = "views"
LoopEnded == pc = "loop" /\ pos = Len(input_files)

\* what a load of the registry side-car gives
PersistedRegistry == LoadedFrom(disk_ts, EmptyDict)

\* ---------------------------------------------------------------- C1
\* C1: every file index given to an input file is strictly greater than every
\* index given earlier, in the same session or in an earlier one.
C1_FileIndexNeverReused ==
  [][FileStep => IndexOf(start_index, pos + 1) > max_assigned]_vars

\* ---------------------------------------------------------------- C2
\* every column of old is a column of new, and every key of old has its old
\* cells in new
ColumnsKept(old, new) ==
  /\ ~IsNone(new)
  /\ Range(old.cols) \subseteq Range(new.cols)
  /\ \A i \in DOMAIN old.rows :
       \E j \in DOMAIN new.rows :
         \A c \in Range(old.cols) : new.rows[j][c] = old.rows[i][c]

\* C2: incorporating a file never drops or overwrites a column accumulated
\* before: the columns of the dataset before the step are columns after it, and
\* the cells of its keys in them are unchanged, also when the dataset has
\* columns and no rows.
C2_MergeKeepsColumns ==
  [][(FileStep /\ ~IsNone(general_df)) => ColumnsKept(general_df, general_df')]_vars

\* ---------------------------------------------------------------- C3
\* C3: per-file errors never abort the batch: when the loop ends every file of
\* the batch has been gone through in the caller's order, and the three data
\* columns of every file that did not fail are in the dataset.
C3_BatchSurvivesFileErrors ==
  LoopEnded =>
    /\ Len(results) = Len(input_files)
    /\ \A k \in DOMAIN results :
         results[k][2] = "ok" =>
           /\ ~IsNone(general_df)
           /\ Range(DataColsOf(results[k][1])) \subseteq Range(general_df.cols)

\* ---------------------------------------------------------------- C4
\* C4: a session that started with a batch and a destination reaches the
\* output write and ends with exactly one overall signal, success or failure,
\* and failure only when the write of the destination failed.
C4_SessionEndsWithOneSignal ==
  ended \in {"written", "write_failed", "raised"} =>
    /\ ended \in {"written", "write_failed"}
    /\ Len(signals) = 1
    /\ signals[1] = (IF ended = "write_failed" THEN "error" ELSE "success")

\* ---------------------------------------------------------------- C5
GeneralSheet == write_df_custom("General", general_df, file_timestamps)

\* C5: in the General sheet that is written, every data column has in header
\* row 1 the timestamp of the file its cells came from and in header row 2 one
\* of ADD, On Hand, Free ROD; every reference column has a blank in header
\* row 1 and its own name in header row 2.
C5_GeneralHeaders ==
  pc = "write" =>
    \A i \in DOMAIN general_df.cols :
      LET c == general_df.cols[i]
      IN IF c \in Range(RefCols)
         THEN GeneralSheet.cells[1][i] = "" /\ GeneralSheet.cells[2][i] = c
         ELSE /\ GeneralSheet.cells[1][i] = general_df.origin[c]
              /\ GeneralSheet.cells[2][i] \in {Col(DATA_HEADERS[h]) : h \in 1..3}

\* ---------------------------------------------------------------- C6
\* C6: when either side-car is absent or unreadable the session starts from an
\* empty dataset and an empty registry, otherwise from exactly the two
\* persisted values; in both cases no failure is signalled.
C6_LoadAllOrNothing ==
  [][LoadStep =>
       /\ signals' = <<>>
       /\ IF disk_df[1] = "ok" /\ disk_ts[1] = "ok"
          THEN general_df' = disk_df[2] /\ file_timestamps' = disk_ts[2]
          ELSE general_df' = NoneDF /\ file_timestamps' = EmptyDict]_vars

\* ---------------------------------------------------------------- C7
\* C7: after the save step, however it ends, it is never the case that one
\* side-car holds this session's final value while the other still holds
\* the earlier, different one.
C7_SaveKeepsSideCarsConsistent ==
  [][SaveStep =>
       LET df_new == disk_df' = <<"ok", general_df>>
           ts_new == disk_ts' = <<"ok", file_timestamps>>
           df_old == disk_df' = disk_df /\ ~df_new
           ts_old == disk_ts' = disk_ts /\ ~ts_new
       IN ~((df_new /\ ts_old) \/ (ts_new /\ df_old))]_vars

\* ---------------------------------------------------------------- C8
\* the sheets the write step emits from the locals it is given
SheetsToWrite == WorkbookSheets(general_df, file_timestamps)
SheetsTitled(sheets, title) == {i \in DOMAIN sheets : sheets[i].title = title}

HasFsvRow(df) ==
  \E i \in DOMAIN df.rows : DescrContains(df.rows[i][RefCols[1]], {Txt_FSV})
HasSfPuckRow(df) ==
  \E i \in DOMAIN df.rows : DescrContains(df.rows[i][RefCols[1]], {<<"S", "F">>, Txt_PUCK})

SixSheetTitles ==
  {"FSV_ADD", "FSV_OnHand", "FSV_FreeROD", "SF_PUCK_ADD", "SF_PUCK_OnHand", "SF_PUCK_FreeROD"}

\* C8: the workbook that is written holds each of the six category-by-field
\* sheets once, each with its two header rows (a blank and the reference name
\* over the reference columns), whether or not a row matches the category;
\* General_FSV and General_SF_PUCK are in it exactly when their category has
\* a row, and General exactly when there is a dataset.
C8_SheetsOfTheWorkbook ==
  pc = "write" =>
    LET sheets == SheetsToWrite
    IN /\ \A t \in SixSheetTitles :
            /\ Cardinality(SheetsTitled(sheets, t)) = 1
            /\ \A i \in SheetsTitled(sheets, t) :
                 /\ Len(sheets[i].cells) >= 2
                 /\ Len(sheets[i].cells[1]) = Len(sheets[i].cells[2])
                 /\ Len(sheets[i].cells[2]) > 3
                 /\ \A r \in 1..3 :
                      sheets[i].cells[1][r] = "" /\ sheets[i].cells[2][r] = RefCols[r]
       /\ Cardinality(SheetsTitled(sheets, "General")) =
            (IF IsNone(general_df) THEN 0 ELSE 1)
       /\ Cardinality(SheetsTitled(sheets, "General_FSV")) =
            (IF ~IsNone(general_df) /\ HasFsvRow(general_df) THEN 1 ELSE 0)
       /\ Cardinality(SheetsTitled(sheets, "General_SF_PUCK")) =
            (IF ~IsNone(general_df) /\ HasSfPuckRow(general_df) THEN 1 ELSE 0)

\* a write that completed for a dataset (saved as it was written) in which
\* SF_PUCK has a row and FSV has none
C8_Witness ==
  /\ pc = "idle" /\ ended = "written"
  /\ signals = <<"success">> /\ save_result = "saved"
  /\ disk_df[1] = "ok" /\ ~IsNone(disk_df[2])
  /\ ~HasFsvRow(disk_df[2]) /\ HasSfPuckRow(disk_df[2])

\* ---------------------------------------------------------------- C9
RegistryIndices(timestamps) == {IntOfStr(k) : k \in DOMAIN timestamps}

\* C9: the first index of a session is 1 when the loaded registry is empty and
\* one more than its greatest key otherwise; it is computed once, before any
\* file, and the k-th file of the batch is given first + k - 1 whether the
\* files before it failed or not.
C9_NextFileIndex ==
  /\ [][LoadStep =>
          IF RegistryIndices(file_timestamps') = {} THEN start_index' = 1
          ELSE /\ start_index' - 1 \in RegistryIndices(file_timestamps')
               /\ \A n \in RegistryIndices(file_timestamps') : n < start_index']_vars
  /\ [][(pc = "loop" /\ pc' # "idle") => start_index' = start_index]_vars
  /\ [](pc \in {"loop", "views", "write"} =>
          \A k \in DOMAIN results : results[k][1] = start_index + k - 1)

\* a session that loaded a registry whose only key is 2 (the first file of
\* the batch before failed, its second got index 2) has given its file index 3
C9_Witness ==
  /\ pc = "loop" /\ pos = 1
  /\ start_index = 3
  /\ results = << <<3, "ok">> >>
  /\ DOMAIN file_timestamps = {"2", "3"}

\* ---------------------------------------------------------------- C10
\* every entry of registry a is an entry of registry b
EntriesKept(a, b) == \A k \in DOMAIN a : k \in DOMAIN b /\ b[k] = a[k]

\* C10: the registry is append-only: an entry of the persisted registry stays
\* in it with its timestamp, an entry of the registry in memory stays in it
\* while the session runs, and the session starts with the persisted entries.
C10_RegistryAppendOnly ==
  [][/\ EntriesKept(PersistedRegistry, PersistedRegistry')
     /\ (pc # "idle" /\ pc' # "idle") => EntriesKept(file_timestamps, file_timestamps')
     /\ LoadStep => EntriesKept(PersistedRegistry, file_timestamps')]_vars

\* ---------------------------------------------------------------- C11
\* the table the file step ingests: df_combined of the file the loop is at
NewTable == process_input_file(input_files[pos + 1], IndexOf(start_index, pos + 1))[2]

DataCols(df) == Range(df.cols) \ Range(RefCols)

\* the cell of a key in a column of df; the "no data" marker when df has no
\* row of the key
CellOf(df, key, c) ==
  IF key \in KeysOf(df)
  THEN df.rows[CHOOSE i \in DOMAIN df.rows : KeyOf(df.rows[i]) = key][c]
  ELSE NaN

\* result is the full outer join of existing and new on the reference key
IsOuterJoin(existing, new, result) ==
  /\ KeysOf(result) = KeysOf(existing) \cup KeysOf(new)
  /\ Len(result.rows) = Cardinality(KeysOf(result))
  /\ \A c \in DataCols(existing) :
       /\ c \in Range(result.cols)
       /\ \A k \in KeysOf(result) : CellOf(result, k, c) = CellOf(existing, k, c)
  /\ \A c \in DataCols(new) :
       /\ c \in Range(result.cols)
       /\ \A k \in KeysOf(result) : CellOf(result, k, c) = CellOf(new, k, c)

\* C11: when a dataset exists, a file step that incorporates a table is a full
\* outer join on (Descr, OPC, SKU): the keys of the result are the keys of both
\* sides, a key keeps its cells in the earlier columns and in the three new
\* columns, and has the "no data" marker in the columns of the side that does
\* not have it.
C11_IncorporateIsOuterJoin ==
  [][(FileStep /\ ~IsNone(general_df) /\ results'[pos + 1][2] = "ok")
       => IsOuterJoin(general_df, NewTable, general_df')]_vars

\* ---------------------------------------------------------------- C12
\* the orders in which the files of a batch can be supplied
Orders(files) == {b \in Batches : Range(b) = Range(files)}

ColumnNames(df) == IF IsNone(df) THEN {} ELSE Range(df.cols)

\* C12: from the persisted state a session starts with, the set of column
\* names of the dataset at the end of the loop is the same for every order of
\* the files of the batch, and the k-th file in the caller's order got the
\* k-th index of the session.
C12_ColumnSetOrderIndependent ==
  LoopEnded =>
    /\ \A k \in DOMAIN results : results[k][1] = IndexOf(start_index, k)
    /\ \A b \in Orders(input_files) :
         ColumnNames(AfterBatch(LoadedFrom(disk_df, NoneDF), LoadedFrom(disk_ts, EmptyDict),
                                b, start_index).general_df)
           = ColumnNames(general_df)

\* ---------------------------------------------------------------- C13
\* str(value) without its commas and the blanks around it
Stripped(cell) == Strip(RemoveCommas(StrOfCell(cell)))

\* C13: for a value that, without commas and surrounding blanks, is empty or
\* all decimal digits, format_add returns the sentinel 0.0001 when it is empty
\* or denotes zero and otherwise the integer the digits denote divided by 10^4;
\* in integers scaled by 10^4 the result is never 0.
C13_FormatAddDigits ==
  (formatted[1] = "format_add" /\ (Stripped(value) = <<>> \/ IsDigit(Stripped(value)))) =>
    /\ formatted[2] = (IF DigitsValue(Stripped(value)) = 0 THEN Num(1)
                       ELSE Num(DigitsValue(Stripped(value))))
    /\ formatted[2] # Num(0)

\* ---------------------------------------------------------------- C14
\* the substrings a category looks for in Descr
PatternsOf(category) ==
  IF category = "FSV" THEN {Txt_FSV} ELSE {Txt_SF, Txt_PUCK}

\* the rows of df whose Descr is a text with one of the substrings in it
MatchingRows(df, category) ==
  SelectSeq(df.rows,
            LAMBDA row : /\ row[RefCols[1]][1] = "str"
                         /\ \E p \in PatternsOf(category) : Contains(row[RefCols[1]][2], p))

\* the rows written under the two header rows of a sheet
DataRowsOf(sheet) == SubSeq(sheet.cells, 3, Len(sheet.cells))

\* the cells of the rows in the columns cols, row by row
CellsIn(rows, cols) ==
  [r \in DOMAIN rows |-> [i \in DOMAIN cols |-> rows[r][cols[i]]]]

\* C14: the rows of each FSV sheet are the rows of the dataset whose Descr
\* contains "FSV", those of each SF_PUCK sheet the rows whose Descr contains
\* "SF" or "PUCK", each with the cells it has in the dataset; a row that
\* matches neither, or has no Descr, is in no category sheet.
C14_CategoryRows ==
  pc = "write" =>
    LET sheets == SheetsToWrite
    IN \A c \in 1..2 :
         LET category == CategoryNames[c]
             matching == MatchingRows(general_df, category)
         IN /\ \A h \in 1..3 :
                 \A i \in SheetsTitled(sheets, CATEGORY_SHEETS[category][DATA_HEADERS[h]]) :
                   DataRowsOf(sheets[i]) =
                     CellsIn(matching,
                             RefCols \o SelectSeq(general_df.cols,
                                                  LAMBDA col : Len(col) >= 2
                                                               /\ col[1] = DATA_HEADERS[h]))
            /\ \A i \in SheetsTitled(sheets, "General_" \o category) :
                 DataRowsOf(sheets[i]) = CellsIn(matching, general_df.cols)

\* a dataset with an FSV row, a PUCK row and a row of no category is written
C14_Witness ==
  /\ pc = "write"
  /\ Len(MatchingRows(general_df, "FSV")) = 1
  /\ Len(MatchingRows(general_df, "SF_PUCK")) = 1
  /\ Len(general_df.rows) = 3
  /\ Len(general_df.cols) = 9
  /\ \E i \in SheetsTitled(SheetsToWrite, "FSV_ADD") :
       Len(DataRowsOf(SheetsToWrite[i])) = 1

\* ---------------------------------------------------------------- C15
\* the data columns of the dataset for one field type, one per file index
FieldCols(df, header) ==
  SelectSeq(df.cols, LAMBDA col : Len(col) >= 2 /\ col[1] = header)

\* C15: each category-by-field sheet that is written has the three reference
\* columns and then one column per file index the dataset has for the field
\* (header row 1 the timestamp of the index, header row 2 the field name),
\* whether the category has rows or not.
C15_CategorySheetShape ==
  pc = "write" =>
    LET sheets == SheetsToWrite
    IN \A c \in 1..2, h \in 1..3 :
         LET cols == FieldCols(general_df, DATA_HEADERS[h])
         IN \A i \in SheetsTitled(sheets, CATEGORY_SHEETS[CategoryNames[c]][DATA_HEADERS[h]]) :
              /\ sheets[i].cells[1] =
                   <<"", "", "">>
                   \o [k \in DOMAIN cols |->
                         DictGet(file_timestamps, cols[k][Len(cols[k])], "")]
              /\ sheets[i].cells[2] =
                   RefCols \o [k \in DOMAIN cols |-> Col(DATA_HEADERS[h])]

\* ---------------------------------------------------------------- C16
\* C16: a file step that ends in a per-file error leaves the locals as they
\* were: the dataset is unchanged and the registry has no new entry, whether
\* the error came from reading the file or from the merge.
C16_FailedFileLeavesNoTrace ==
  [][(FileStep /\ results'[pos + 1][2] = "error")
       => /\ general_df' = general_df
          /\ file_timestamps' = file_timestamps]_vars

\* ---------------------------------------------------------------- C17
\* the file indices that are suffixes of data columns of df
ColumnIndices(df) ==
  IF IsNone(df) THEN {} ELSE {c[Len(c)] : c \in DataCols(df)}

\* the indices in the columns of df are the keys of the registry, and each
\* has its three columns and no other
IndicesAgree(df, timestamps) ==
  /\ ColumnIndices(df) = DOMAIN timestamps
  /\ \A k \in DOMAIN timestamps :
       {c \in DataCols(df) : c[Len(c)] = k}
         = {Suffixed(Col(DATA_HEADERS[h]), k) : h \in 1..3}

\* C17: at the end of the loop of every session, and in the two side-cars
\* after a save that succeeded, the file indices in the names of the data
\* columns are the keys of the registry, each with exactly its three columns.
C17_ColumnsMatchRegistry ==
  /\ LoopEnded => IndicesAgree(general_df, file_timestamps)
  /\ (pc = "views" /\ save_result = "saved") => IndicesAgree(disk_df[2], disk_ts[2])

====
